---- MODULE Spec2Model ----
(***************************************************************************)
(* HashScope backend: the deposit / withdrawal / usage reconciliation      *)
(* handlers of app/routers/users.py over the relational tables of          *)
(* app/models.py and the chain verifier of app/blockchain/contracts.py.    *)
(*                                                                         *)
(* Every HTTP handler runs in its own request worker with its own database *)
(* session; the workers interleave at database commits.  A handler is      *)
(* therefore a sequence of steps, one per commit, and the chain reads and  *)
(* queries that precede a commit belong to the step that ends at it.       *)
(***************************************************************************)
EXTENDS Integers, Sequences, FiniteSets, Bags

\* ------------------------------------------------------------------ bounds

\* Largest amount (base units) a withdraw / usage request may ask for, and
\* largest contract balance the chain reports for such a request.
MaxAmount == 1

\* Logs in a receipt handed to a gateway function on its own.
MaxLogs == 2

\* Nonces generate_nonce hands out.
MaxNonces == 3

\* Highest call count an API key is authenticated at.
MaxCalls == 2

\* Largest price a reader returns.
MaxPrice == 2

\* Largest max_retries a fetcher is called with (3 by default).
MaxRetries == 3

\* Largest amount in wei that is converted.
MaxWei == 50

\* Bits of a float's significand (53 in the code's doubles).
MantissaBits == 4

\* Decimal places between wei and HSK (18 in the code).
Decimals == 1

\* ------------------------------------------------------------- environment

\* Request workers serving handlers concurrently.
Workers == {"w1", "w2"}

\* The configured deposit contract, as the environment variable spells it.
DEPOSIT_CONTRACT_ADDRESS == "0xC0"

\* Wallet addresses.  "0xAA01" and "0xAA02" share their leading characters;
\* "0xaa01" is "0xAA01" in lower case.
Wallets == {"0xAD01", "0xAA01", "0xaa01", "0xAA02"}

\* str.lower() on the addresses of the model.
Lower(a) ==
    CASE a = "0xAD01" -> "0xad01"
      [] a = "0xAA01" -> "0xaa01"
      [] a = "0xAA02" -> "0xaa02"
      [] a = "0xC0"   -> "0xc0"
      [] a = "0xEE"   -> "0xee"
      [] OTHER        -> a

\* verification['user'][:8]: the leading characters of an address.
Prefix8(a) ==
    CASE a = "0xAD01" -> "0xAD"
      [] a = "0xAA01" -> "0xAA"
      [] a = "0xAA02" -> "0xAA"
      [] a = "0xaa01" -> "0xaa"
      [] OTHER        -> a

\* Transaction hashes a client may notify.
TxHashes == {"0xd1", "0xd2", "0xw1", "0xu1", "0xf1", "0xn1"}

NoLogs == <<>>

\* What the chain holds for each hash: the receipt (absent while the
\* transaction is not mined), the transaction itself, the receipt's logs,
\* and whether the event decoder accepts the logs or raises on them.
ChainTx(h) ==
    CASE h = "0xd1" ->
           [receipt |-> "success", to |-> "0xC0", from |-> "0xAA01", value |-> 5,
            logs |-> <<[address |-> "0xC0", event |-> "Deposit",
                        user |-> "0xAA01", amount |-> 5]>>,
            decode |-> "ok"]
      [] h = "0xd2" ->
           [receipt |-> "success", to |-> "0xC0", from |-> "0xAA02", value |-> 3,
            logs |-> NoLogs, decode |-> "ok"]
      [] h = "0xw1" ->
           [receipt |-> "success", to |-> "0xC0", from |-> "0xAD01", value |-> 0,
            logs |-> <<[address |-> "0xC0", event |-> "Withdraw",
                        user |-> "0xAA01", amount |-> 2]>>,
            decode |-> "ok"]
      [] h = "0xu1" ->
           [receipt |-> "success", to |-> "0xC0", from |-> "0xAD01", value |-> 0,
            logs |-> <<[address |-> "0xC0", event |-> "UsageDeduction",
                        user |-> "0xAA01", amount |-> 1]>>,
            decode |-> "ok"]
      [] h = "0xf1" ->
           [receipt |-> "failed", to |-> "0xC0", from |-> "0xAA01", value |-> 5,
            logs |-> NoLogs, decode |-> "ok"]
      [] OTHER ->
           [receipt |-> "absent", to |-> "0xC0", from |-> "0xAA01", value |-> 5,
            logs |-> NoLogs, decode |-> "ok"]

\* ------------------------------------------------------------------- state

VARIABLES
    users,          \* table "users": bag of rows
    transactions,   \* table "transactions": bag of rows
    pc,             \* per worker: where its handler stands
    op,             \* per worker: the handler it runs
    tx_data,        \* per worker: the notified tx_hash
    verification,   \* per worker: the verifier's result
    calls,          \* per worker: chain gateway calls made by the handler
    resp,           \* per worker: the response of the finished handler
    probe,          \* the chain contents and arguments a gateway function is
                    \* applied to when it is exercised on its own
    outcome,        \* what the gateway function returned for the probe
    api_keys,       \* table "api_keys"
    api_usage,      \* table of APIUsage rows, one per tracked API call
    loaded,         \* per worker: the APIKey row its session has loaded
    tokens,         \* the access tokens issued so far, each with the nonce
                    \* its signature was made over
    nonce_seq       \* how many nonces generate_nonce has handed out

\* The state of the wallet login and of the API keys.
account == <<api_keys, api_usage, loaded, tokens, nonce_seq>>

vars == <<users, transactions, pc, op, tx_data, verification, calls, resp,
          probe, outcome, account>>

None == "none"

\* A row of table "users" (User of app/models.py and of app/models/user.py,
\* which map the same table); balance and token_balance default to 0,
\* is_admin to False, and a row made by a notify has no nonce.
User(wallet_address) ==
    [wallet_address |-> wallet_address,
     username       |-> Prefix8(wallet_address),
     email          |-> Prefix8(wallet_address),
     balance        |-> 0,
     is_admin       |-> FALSE,
     nonce          |-> None,
     token_balance  |-> 0]

\* A row of table "transactions", as the handlers construct it.
Transaction(user_wallet, tx_hash, amount, tx_type, status) ==
    [user_wallet |-> user_wallet, tx_hash |-> tx_hash, amount |-> amount,
     tx_type |-> tx_type, status |-> status]

\* The operator's account, present when the service starts.
AdminUser == [User("0xAD01") EXCEPT !.is_admin = TRUE]

\* ---------------------------------------------------------------- verifier

\* str(e) of a chain gateway exception (connection refused, timeout).
RpcError == "rpc error"

Failure(message) ==
    [success |-> FALSE, user |-> None, amount |-> 0, message |-> message]

Verified(user, amount) ==
    [success |-> TRUE, user |-> user, amount |-> amount, message |-> None]

\* contract.events.<Event>().process_receipt(tx_receipt): the logs of the
\* receipt that decode as the event, in order; logs of other events are
\* dropped.  The decoder matches on the event signature alone.
process_receipt(tx_receipt, event) ==
    SelectSeq(tx_receipt.logs, LAMBDA log : log.event = event)

\* Some log of the receipt was emitted by the deposit contract.
HasContractLog(tx_receipt) ==
    \E i \in 1..Len(tx_receipt.logs) :
        Lower(tx_receipt.logs[i].address) = Lower(DEPOSIT_CONTRACT_ADDRESS)

\* The first event the loop over the logs returns, or <<>>.
FirstEvent(tx_receipt, event) ==
    IF HasContractLog(tx_receipt) /\ tx_receipt.decode = "ok"
    THEN process_receipt(tx_receipt, event)
    ELSE <<>>

\* str(e) of the TransactionNotFound some gateway builds raise for a hash
\* that is not mined, where others return no receipt.
TransactionNotFound == "TransactionNotFound"

\* The gateway call raised: it was unreachable, or the hash is unknown to a
\* build that raises for it.
Raised(tx, rpc_ok) == ~rpc_ok \/ tx.receipt = "not_found"

RaisedMessage(rpc_ok) == IF rpc_ok THEN TransactionNotFound ELSE RpcError

\* The body of verify_deposit_transaction on what the chain holds.
verify_deposit(tx, rpc_ok) ==
    LET ev == FirstEvent(tx, "Deposit")
    IN  IF Raised(tx, rpc_ok) THEN Failure(RaisedMessage(rpc_ok))
        ELSE IF tx.receipt = "success" /\ ev # <<>>
             THEN Verified(ev[1].user, ev[1].amount)
        ELSE IF tx.receipt = "success"
                /\ tx.to # None
                /\ Lower(tx.to) = Lower(DEPOSIT_CONTRACT_ADDRESS)
             THEN Verified(tx.from, tx.value)
        ELSE Failure("Transaction failed or no Deposit event found")

\* The plain-transfer fallback of verify_deposit_transaction is entered:
\* the receipt succeeded and the log loop returned no event.
FallbackEntered(tx, rpc_ok) ==
    /\ ~Raised(tx, rpc_ok)
    /\ tx.receipt = "success"
    /\ FirstEvent(tx, "Deposit") = <<>>

\* The body of verify_withdraw_transaction on what the chain holds.
verify_withdraw(tx, rpc_ok) ==
    LET ev == FirstEvent(tx, "Withdraw")
    IN  IF Raised(tx, rpc_ok) THEN Failure(RaisedMessage(rpc_ok))
        ELSE IF tx.receipt = "success" /\ ev # <<>>
             THEN Verified(ev[1].user, ev[1].amount)
        ELSE Failure("Transaction failed or no Withdraw event found")

\* The body of verify_usage_deduction_transaction on what the chain holds.
verify_usage_deduction(tx, rpc_ok) ==
    LET ev == FirstEvent(tx, "UsageDeduction")
    IN  IF Raised(tx, rpc_ok) THEN Failure(RaisedMessage(rpc_ok))
        ELSE IF tx.receipt = "success" /\ ev # <<>>
             THEN Verified(ev[1].user, ev[1].amount)
        ELSE Failure("Transaction failed or no UsageDeduction event found")

\* get_transaction_status on what the chain holds.
get_transaction_status(tx, rpc_ok) ==
    IF Raised(tx, rpc_ok) THEN "error"
    ELSE IF tx.receipt = "absent" THEN "pending"
    ELSE IF tx.receipt = "success" THEN "confirmed"
    ELSE "failed"

\* get_balance(address): what the contract stores for the address, or 0
\* when the read raised, whatever it raised.
get_balance(stored, rpc) == IF rpc = "ok" THEN stored ELSE 0

\* The logs a probed receipt may carry: emitted by the deposit contract or by
\* another contract, of any of the three events.
ProbeLog ==
    [address : {DEPOSIT_CONTRACT_ADDRESS, "0xEE"},
     event   : {"Deposit", "Withdraw", "UsageDeduction"},
     user    : {"0xAA01"},
     amount  : {5}]

ProbeLogs == UNION {[1..n -> ProbeLog] : n \in 0..MaxLogs}

\* What the chain may hold for a probed hash.  The recipient is the deposit
\* contract (in another letter case), another contract, or none (a contract
\* creation).
ProbeTx ==
    [receipt : {"absent", "not_found", "failed", "success"},
     to      : {"0xc0", "0xEE", None},
     from    : {"0xAA02"},
     value   : {3},
     logs    : ProbeLogs,
     decode  : {"ok", "raises"}]

\* The wallet and the amount the notifying client expects of the transaction.
\* TransactionNotify has a field for neither, so no verifier is handed them.
ExpectedWallets == {"0xaa01", "0xAA02"}
ExpectedAmounts == {4, 5}

NoTx ==
    [receipt |-> "absent", to |-> None, from |-> "0xAA02", value |-> 3,
     logs |-> NoLogs, decode |-> "ok"]

NoProbe ==
    [kind |-> None, tx |-> NoTx, rpc_ok |-> TRUE, expected_wallet |-> None,
     expected_amount |-> 0, stored |-> 0, rpc |-> "ok"]

\* A hash on the chain, handed to a verifier or to get_transaction_status.
VerifyProbes ==
    {[NoProbe EXCEPT !.kind = "tx", !.tx = tx, !.rpc_ok = ok,
                     !.expected_wallet = ew, !.expected_amount = ea] :
        tx \in ProbeTx, ok \in BOOLEAN,
        ew \in ExpectedWallets, ea \in ExpectedAmounts}

\* An address with its balance in the contract, handed to get_balance while
\* the node answers, is unreachable, or answers with a read error.
BalanceProbes ==
    {[NoProbe EXCEPT !.kind = "address", !.stored = b, !.rpc = r] :
        b \in 0..MaxAmount, r \in {"ok", "unreachable", "read_error"}}

Probes == VerifyProbes \cup BalanceProbes

\* What a gateway function handed back: the verifier's result, the status
\* of get_transaction_status, the balance of get_balance, and the exception
\* that left the function (none of them lets one out).
NoOutcome ==
    [fn |-> None, result |-> Failure(None), entered_fallback |-> FALSE,
     status |-> None, balance |-> 0, raised |-> None]

\* verify_deposit_transaction(tx_hash); rpc_ok = FALSE is a gateway call
\* that raises.
verify_deposit_transaction(tx_hash, rpc_ok) ==
    verify_deposit(ChainTx(tx_hash), rpc_ok)

\* Gateway calls verify_deposit_transaction makes: the receipt fetch, and
\* the transaction fetch of the plain-transfer fallback.
deposit_gateway_calls(tx_hash, rpc_ok) ==
    IF FallbackEntered(ChainTx(tx_hash), rpc_ok) THEN 2 ELSE 1

\* verify_withdraw_transaction(tx_hash)
verify_withdraw_transaction(tx_hash, rpc_ok) ==
    verify_withdraw(ChainTx(tx_hash), rpc_ok)

\* verify_usage_deduction_transaction(tx_hash)
verify_usage_deduction_transaction(tx_hash, rpc_ok) ==
    verify_usage_deduction(ChainTx(tx_hash), rpc_ok)

\* ---------------------------------------------------------------- database

\* db.query(User).filter(User.wallet_address == wallet).first()
QueryUser(wallet) == {u \in BagToSet(users) : u.wallet_address = wallet}

\* The unique indexes of table "users": wallet_address, username, email.
UserUnique(row) ==
    \A u \in BagToSet(users) :
        /\ u.wallet_address # row.wallet_address
        /\ u.username # row.username
        /\ u.email # row.email

\* Variant: no unique index on transactions.tx_hash.
TxHashUnique_NoIndex(row) == TRUE

\* The unique index on transactions.tx_hash.
TxHashUnique(row) ==
    \A t \in BagToSet(transactions) : t.tx_hash # row.tx_hash

\* db.add(row); db.commit() on a table, once its unique indexes admit the row.
Insert(table, row) == table (+) SetToBag({row})

\* The balance column of the row's owner raised by the row's amount.
Credited(row) ==
    LET Cr(u) == IF u.wallet_address = row.user_wallet
                 THEN [u EXCEPT !.balance = @ + row.amount] ELSE u
        S == BagToSet(users)
    IN  [r \in {Cr(u) : u \in S} |-> CopiesIn(CHOOSE u \in S : Cr(u) = r, users)]

\* Variant: the owner is credited in a commit of its own, ahead of the
\* ledger insert, so the credit stands whether or not the insert succeeds.
UsersAfterInsert_CreditFirst(row, inserted) == Credited(row)

\* Table "users" after a notify handler's db.add(tx); db.commit(), whether
\* the row was inserted or the commit raised: the handlers assign no column
\* of any user, so neither outcome writes a balance.
UsersAfterInsert(row, inserted) == users

\* ----------------------------------------------------------------- handlers

NoVerification == Failure(None)

NoResp == [status |-> None, message |-> None, request_id |-> 0]

Response(status, message) ==
    [status |-> status, message |-> message, request_id |-> 0]

\* str(e) of the IntegrityError a commit raises on a unique index.
IntegrityError == "IntegrityError"

NoKey ==
    [key_id |-> None, secret_key_hash |-> None, user |-> None,
     is_active |-> FALSE, expires_at |-> 0, call_count |-> 0]

\* No request is in flight.
Idle ==
    /\ pc = [w \in Workers |-> "idle"]
    /\ op = [w \in Workers |-> None]
    /\ tx_data = [w \in Workers |-> None]
    /\ verification = [w \in Workers |-> NoVerification]
    /\ calls = [w \in Workers |-> 0]
    /\ resp = [w \in Workers |-> NoResp]
    /\ loaded = [w \in Workers |-> NoKey]

\* No API key has been issued and nobody has logged in.
NoAccounts ==
    /\ api_keys = EmptyBag
    /\ api_usage = EmptyBag
    /\ tokens = EmptyBag
    /\ nonce_seq = 0

\* The database as init_db leaves it, with the operator's account in it.
Started ==
    /\ Idle
    /\ NoAccounts
    /\ users = SetToBag({AdminUser})
    /\ transactions = EmptyBag

\* The service after start-up, serving the chain of ChainTx.
Init ==
    /\ Started
    /\ probe = NoProbe
    /\ outcome = NoOutcome

\* A handler returns: its worker records the response and stops.
Finish(w, r) ==
    /\ pc' = [pc EXCEPT ![w] = "done"]
    /\ resp' = [resp EXCEPT ![w] = r]

\* notify_deposit_transaction, up to its first commit: the verifier is
\* called with the notified hash, then the depositor is looked up.
notify_deposit_transaction(w, tx_hash, rpc_ok) ==
    LET v == verify_deposit_transaction(tx_hash, rpc_ok)
    IN  /\ pc[w] = "idle"
        /\ op' = [op EXCEPT ![w] = "deposit_notify"]
        /\ tx_data' = [tx_data EXCEPT ![w] = tx_hash]
        /\ calls' = [calls EXCEPT ![w] = deposit_gateway_calls(tx_hash, rpc_ok)]
        /\ verification' = [verification EXCEPT ![w] = v]
        /\ IF v.success
           THEN /\ pc' = [pc EXCEPT ![w] =
                            IF QueryUser(v.user) = {} THEN "add_user" ELSE "add_tx"]
                /\ resp' = resp
           ELSE Finish(w, Response("failed", v.message))
        /\ UNCHANGED <<users, transactions, probe, outcome, account>>

\* notify_deposit_transaction: db.add(user); db.commit(); db.refresh(user)
notify_deposit_add_user(w) ==
    LET row == User(verification[w].user)
    IN  /\ pc[w] = "add_user"
        /\ op[w] = "deposit_notify"
        /\ IF UserUnique(row)
           THEN /\ users' = Insert(users, row)
                /\ pc' = [pc EXCEPT ![w] = "add_tx"]
                /\ resp' = resp
           ELSE /\ users' = users
                /\ Finish(w, Response("error", IntegrityError))
        /\ UNCHANGED <<transactions, op, tx_data, verification, calls,
                       probe, outcome, account>>

\* notify_deposit_transaction: db.add(tx); db.commit(); return
notify_deposit_add_tx(w) ==
    LET row == Transaction(verification[w].user, tx_data[w],
                           verification[w].amount, "deposit", "confirmed")
    IN  /\ pc[w] = "add_tx"
        /\ op[w] = "deposit_notify"
        /\ users' = UsersAfterInsert(row, TxHashUnique(row))
        /\ IF TxHashUnique(row)
           THEN /\ transactions' = Insert(transactions, row)
                /\ Finish(w, Response("success",
                                      "Deposit transaction verified and recorded"))
           ELSE /\ transactions' = transactions
                /\ Finish(w, Response("error", IntegrityError))
        /\ UNCHANGED <<op, tx_data, verification, calls, probe, outcome, account>>

\* get_current_admin_user: the dependency of the operator-only routes.  It
\* admits the authenticated caller only when the row carries is_admin.
get_current_admin_user_AnyCaller(caller) == TRUE

get_current_admin_user(caller) == caller.is_admin

Forbidden == Response("403", "Forbidden")

\* notify_withdraw_transaction, up to its commit.
notify_withdraw_transaction(w, caller, tx_hash, rpc_ok) ==
    LET v == verify_withdraw_transaction(tx_hash, rpc_ok)
    IN  /\ pc[w] = "idle"
        /\ op' = [op EXCEPT ![w] = "withdraw_notify"]
        /\ tx_data' = [tx_data EXCEPT ![w] = tx_hash]
        /\ IF ~get_current_admin_user(caller)
           THEN /\ Finish(w, Forbidden)
                /\ UNCHANGED <<calls, verification>>
           ELSE /\ calls' = [calls EXCEPT ![w] = 1]
                /\ verification' = [verification EXCEPT ![w] = v]
                /\ IF ~v.success
                   THEN Finish(w, Response("failed", v.message))
                   ELSE IF QueryUser(v.user) = {}
                   THEN Finish(w, Response("failed", "User not found"))
                   ELSE /\ pc' = [pc EXCEPT ![w] = "add_tx"]
                        /\ resp' = resp
        /\ UNCHANGED <<users, transactions, probe, outcome, account>>

\* notify_withdraw_transaction: db.add(tx); db.commit(); return
notify_withdraw_add_tx(w) ==
    LET row == Transaction(verification[w].user, tx_data[w],
                           verification[w].amount, "withdraw", "confirmed")
    IN  /\ pc[w] = "add_tx"
        /\ op[w] = "withdraw_notify"
        /\ users' = UsersAfterInsert(row, TxHashUnique(row))
        /\ IF TxHashUnique(row)
           THEN /\ transactions' = Insert(transactions, row)
                /\ Finish(w, Response("success",
                                      "Withdraw transaction verified and recorded"))
           ELSE /\ transactions' = transactions
                /\ Finish(w, Response("error", IntegrityError))
        /\ UNCHANGED <<op, tx_data, verification, calls, probe, outcome, account>>

\* notify_usage_deduction_transaction, up to its commit.
notify_usage_deduction_transaction(w, caller, tx_hash, rpc_ok) ==
    LET v == verify_usage_deduction_transaction(tx_hash, rpc_ok)
    IN  /\ pc[w] = "idle"
        /\ op' = [op EXCEPT ![w] = "usage_notify"]
        /\ tx_data' = [tx_data EXCEPT ![w] = tx_hash]
        /\ IF ~get_current_admin_user(caller)
           THEN /\ Finish(w, Forbidden)
                /\ UNCHANGED <<calls, verification>>
           ELSE /\ calls' = [calls EXCEPT ![w] = 1]
                /\ verification' = [verification EXCEPT ![w] = v]
                /\ IF ~v.success
                   THEN Finish(w, Response("failed", v.message))
                   ELSE IF QueryUser(v.user) = {}
                   THEN Finish(w, Response("failed", "User not found"))
                   ELSE /\ pc' = [pc EXCEPT ![w] = "add_tx"]
                        /\ resp' = resp
        /\ UNCHANGED <<users, transactions, probe, outcome, account>>

\* notify_usage_deduction_transaction: db.add(tx); db.commit(); return
notify_usage_deduction_add_tx(w) ==
    LET row == Transaction(verification[w].user, tx_data[w],
                           verification[w].amount, "usage_deduction", "confirmed")
    IN  /\ pc[w] = "add_tx"
        /\ op[w] = "usage_notify"
        /\ users' = UsersAfterInsert(row, TxHashUnique(row))
        /\ IF TxHashUnique(row)
           THEN /\ transactions' = Insert(transactions, row)
                /\ Finish(w, Response("success",
                                      "Usage deduction transaction verified and recorded"))
           ELSE /\ transactions' = transactions
                /\ Finish(w, Response("error", IntegrityError))
        /\ UNCHANGED <<op, tx_data, verification, calls, probe, outcome, account>>

\* The id the database gives a new row: rows are never deleted, so it is
\* the number of rows after the insert.
NewId(rows) == BagCardinality(rows)

InsufficientBalance_Never(balance, amount) == FALSE

\* if balance < request.amount: raise HTTPException(400)
InsufficientBalance(balance, amount) == balance < amount

\* request_withdraw: the caller asks for a withdrawal from the own wallet;
\* balance is what get_balance read from the contract (0 on a read error).
request_withdraw(w, caller, wallet_address, amount, balance) ==
    LET row == Transaction(caller.wallet_address, "pending", amount,
                           "withdraw_request", "pending")
    IN  /\ pc[w] = "idle"
        /\ op' = [op EXCEPT ![w] = "withdraw_request"]
        /\ IF Lower(caller.wallet_address) # Lower(wallet_address)
           THEN /\ Finish(w, Forbidden)
                /\ UNCHANGED <<transactions, calls>>
           ELSE /\ calls' = [calls EXCEPT ![w] = 1]
                /\ IF InsufficientBalance(balance, amount)
                   THEN /\ Finish(w, Response("400", "Insufficient balance"))
                        /\ transactions' = transactions
                   ELSE IF TxHashUnique(row)
                   THEN /\ transactions' = Insert(transactions, row)
                        /\ Finish(w, [status |-> "200",
                                      message |-> "Withdrawal request submitted successfully",
                                      request_id |-> NewId(transactions')])
                   ELSE /\ transactions' = transactions
                        /\ Finish(w, Response("500", IntegrityError))
        /\ UNCHANGED <<users, tx_data, verification, probe, outcome, account>>

\* deduct_for_usage: the operator asks to deduct usage from a wallet.
deduct_for_usage(w, caller, wallet_address, amount, balance) ==
    LET row == Transaction(wallet_address, "pending", amount,
                           "usage_request", "pending")
    IN  /\ pc[w] = "idle"
        /\ op' = [op EXCEPT ![w] = "usage_request"]
        /\ IF ~get_current_admin_user(caller)
           THEN /\ Finish(w, Forbidden)
                /\ UNCHANGED <<transactions, calls>>
           ELSE /\ calls' = [calls EXCEPT ![w] = 1]
                /\ IF InsufficientBalance(balance, amount)
                   THEN /\ Finish(w, Response("400", "Insufficient balance"))
                        /\ transactions' = transactions
                   ELSE IF QueryUser(wallet_address) = {}
                   THEN /\ Finish(w, Response("404", "User not found"))
                        /\ transactions' = transactions
                   ELSE IF TxHashUnique(row)
                   THEN /\ transactions' = Insert(transactions, row)
                        /\ Finish(w, [status |-> "200",
                                      message |-> "Usage deduction request submitted successfully",
                                      request_id |-> NewId(transactions')])
                   ELSE /\ transactions' = transactions
                        /\ Finish(w, Response("500", IntegrityError))
        /\ UNCHANGED <<users, tx_data, verification, probe, outcome, account>>

\* The response has been sent; the worker takes the next request.
Return(w) ==
    /\ pc[w] = "done"
    /\ pc' = [pc EXCEPT ![w] = "idle"]
    /\ op' = [op EXCEPT ![w] = None]
    /\ tx_data' = [tx_data EXCEPT ![w] = None]
    /\ verification' = [verification EXCEPT ![w] = NoVerification]
    /\ calls' = [calls EXCEPT ![w] = 0]
    /\ resp' = [resp EXCEPT ![w] = NoResp]
    /\ UNCHANGED <<users, transactions, probe, outcome, account>>

Next ==
    \E w \in Workers :
        \/ \E h \in TxHashes, rpc_ok \in BOOLEAN :
               notify_deposit_transaction(w, h, rpc_ok)
        \/ notify_deposit_add_user(w)
        \/ notify_deposit_add_tx(w)
        \/ \E caller \in BagToSet(users), h \in TxHashes, rpc_ok \in BOOLEAN :
               notify_withdraw_transaction(w, caller, h, rpc_ok)
        \/ notify_withdraw_add_tx(w)
        \/ \E caller \in BagToSet(users), h \in TxHashes, rpc_ok \in BOOLEAN :
               notify_usage_deduction_transaction(w, caller, h, rpc_ok)
        \/ notify_usage_deduction_add_tx(w)
        \/ \E caller \in BagToSet(users), a \in Wallets, amount \in 1..MaxAmount,
              balance \in 0..MaxAmount :
               request_withdraw(w, caller, a, amount, balance)
        \/ \E caller \in BagToSet(users), a \in Wallets, amount \in 1..MaxAmount,
              balance \in 0..MaxAmount :
               deduct_for_usage(w, caller, a, amount, balance)
        \/ Return(w)

Spec == Init /\ [][Next]_vars

\* Every started handler runs to its response.
HandlerStep(w) ==
    \/ notify_deposit_add_user(w)
    \/ notify_deposit_add_tx(w)
    \/ notify_withdraw_add_tx(w)
    \/ notify_usage_deduction_add_tx(w)
    \/ Return(w)

\* The service under load: handlers run to their response and clients keep
\* sending requests, so no behaviour ends with the service falling idle.
FairSpec ==
    /\ Spec
    /\ \A w \in Workers : WF_vars(HandlerStep(w))
    /\ WF_vars(Next)

\* --------------------------------------------- gateway functions on their own

\* verify_deposit_transaction applied to the probed hash.
call_verify_deposit_transaction ==
    /\ probe.kind = "tx"
    /\ outcome = NoOutcome
    /\ outcome' = [NoOutcome EXCEPT
                      !.fn = "verify_deposit_transaction",
                      !.result = verify_deposit(probe.tx, probe.rpc_ok),
                      !.entered_fallback =
                          FallbackEntered(probe.tx, probe.rpc_ok)]
    /\ UNCHANGED <<users, transactions, pc, op, tx_data, verification, calls,
                   resp, probe, account>>

\* verify_withdraw_transaction applied to the probed hash.
call_verify_withdraw_transaction ==
    /\ probe.kind = "tx"
    /\ outcome = NoOutcome
    /\ outcome' = [NoOutcome EXCEPT
                      !.fn = "verify_withdraw_transaction",
                      !.result = verify_withdraw(probe.tx, probe.rpc_ok)]
    /\ UNCHANGED <<users, transactions, pc, op, tx_data, verification, calls,
                   resp, probe, account>>

\* verify_usage_deduction_transaction applied to the probed hash.
call_verify_usage_deduction_transaction ==
    /\ probe.kind = "tx"
    /\ outcome = NoOutcome
    /\ outcome' = [NoOutcome EXCEPT
                      !.fn = "verify_usage_deduction_transaction",
                      !.result = verify_usage_deduction(probe.tx, probe.rpc_ok)]
    /\ UNCHANGED <<users, transactions, pc, op, tx_data, verification, calls,
                   resp, probe, account>>

\* get_transaction_status applied to the probed hash.
call_get_transaction_status ==
    /\ probe.kind = "tx"
    /\ outcome = NoOutcome
    /\ outcome' = [NoOutcome EXCEPT
                      !.fn = "get_transaction_status",
                      !.status = get_transaction_status(probe.tx, probe.rpc_ok)]
    /\ UNCHANGED <<users, transactions, pc, op, tx_data, verification, calls,
                   resp, probe, account>>

\* get_balance applied to the probed address.
call_get_balance ==
    /\ probe.kind = "address"
    /\ outcome = NoOutcome
    /\ outcome' = [NoOutcome EXCEPT
                      !.fn = "get_balance",
                      !.balance = get_balance(probe.stored, probe.rpc)]
    /\ UNCHANGED <<users, transactions, pc, op, tx_data, verification, calls,
                   resp, probe, account>>

GatewayInit ==
    /\ Started
    /\ probe \in Probes
    /\ outcome = NoOutcome

GatewayNext ==
    \/ call_verify_deposit_transaction
    \/ call_verify_withdraw_transaction
    \/ call_verify_usage_deduction_transaction
    \/ call_get_transaction_status
    \/ call_get_balance

\* Each gateway function applied once to every chain content within bounds.
GatewaySpec == GatewayInit /\ [][GatewayNext]_vars

\* ------------------------------------------------ wallet login and API keys

\* Public identifiers and secrets generate_api_key_pair may draw.
KeyIds == {"k0", "k1"}
Secrets == {"s1", "s2"}

\* Wallets that log in, and wallets that sign login messages.
LoginWallets == {"0xAA01"}
Signers == {"0xAA01", "0xAA02"}

\* The worker that stands for the event loop: the coroutine handlers
\* (async def) run on it one at a time, while the plain handlers (def) run
\* on any worker of the thread pool.
EventLoop == "w1"

\* datetime.utcnow(), and the expiry calculate_expiry_date(days=365) gives a
\* key issued now.
now == 1
calculate_expiry_date == now + 1

pwd_context_hash_Plain(secret) == secret

\* pwd_context.hash(secret_key): the bcrypt hash generate_api_key_pair stores.
pwd_context_hash(secret) ==
    CASE secret = "s1" -> "$2b$s1"
      [] secret = "s2" -> "$2b$s2"
      [] OTHER         -> "$2b$"

\* hashlib.sha256(api_key_secret.encode()).hexdigest(): the digest
\* verify_api_key compares with the stored hash.
sha256_hexdigest(secret) ==
    CASE secret = "s1" -> "5e1f"
      [] secret = "s2" -> "5e2f"
      [] OTHER         -> "e3b0"

\* A row of table "api_keys"; user_id is given by the owner's wallet.
APIKey(key_id, secret_key_hash, user, expires_at) ==
    [key_id |-> key_id, secret_key_hash |-> secret_key_hash, user |-> user,
     is_active |-> TRUE, expires_at |-> expires_at, call_count |-> 0]

\* response_model=APIKeyResponse: the fields of the row the schema keeps.
APIKeyResponse(row) ==
    [key_id |-> row.key_id, is_active |-> row.is_active,
     expires_at |-> row.expires_at, secret_key |-> None, call_count |-> 0]

\* response_model=APIKeyWithSecret
APIKeyWithSecret(row, secret_key) ==
    [APIKeyResponse(row) EXCEPT !.secret_key = secret_key]

\* response_model=APIKeyUsage
APIKeyUsage(row) ==
    [APIKeyResponse(row) EXCEPT !.call_count = row.call_count]

\* A response with a body.
Reply(status, message, body) ==
    [status |-> status, message |-> message, request_id |-> 0, body |-> body]

QueryKey(key_id) == {k \in BagToSet(api_keys) : k.key_id = key_id}

KeysOf_Everyone(user) == BagToSet(api_keys)

\* .filter(APIKey.user_id == current_user.id)
KeysOf(user) == {k \in BagToSet(api_keys) : k.user = user.wallet_address}

InsufficientTokenBalance_Never(current_user) == FALSE

\* if current_user.token_balance <= 0: raise HTTPException(402)
InsufficientTokenBalance(current_user) == current_user.token_balance <= 0

\* create_api_key: issue a key to the caller; key_id and secret_key are what
\* generate_api_key_pair drew.
create_api_key(w, caller, key_id, secret_key) ==
    LET row == APIKey(key_id, pwd_context_hash(secret_key),
                      caller.wallet_address, calculate_expiry_date)
    IN  /\ pc[w] = "idle"
        /\ QueryKey(key_id) = {}
        /\ op' = [op EXCEPT ![w] = "create_api_key"]
        /\ IF InsufficientTokenBalance(caller)
           THEN /\ Finish(w, Response("402", "Insufficient token balance"))
                /\ api_keys' = api_keys
           ELSE /\ api_keys' = Insert(api_keys, row)
                /\ Finish(w, Reply("200", None,
                                   {APIKeyWithSecret(row, secret_key)}))
        /\ UNCHANGED <<users, transactions, tx_data, verification, calls,
                       probe, outcome, api_usage, loaded, tokens, nonce_seq>>

\* list_api_keys
list_api_keys(w, caller) ==
    /\ pc[w] = "idle"
    /\ op' = [op EXCEPT ![w] = "list_api_keys"]
    /\ Finish(w, Reply("200", None,
                       {APIKeyResponse(k) : k \in KeysOf(caller)}))
    /\ UNCHANGED <<users, transactions, tx_data, verification, calls,
                   probe, outcome, account>>

\* get_api_key
get_api_key(w, caller, key_id) ==
    LET found == QueryKey(key_id) \cap KeysOf(caller)
    IN  /\ pc[w] = "idle"
        /\ op' = [op EXCEPT ![w] = "get_api_key"]
        /\ IF found = {}
           THEN Finish(w, Response("404", "API key not found"))
           ELSE Finish(w, Reply("200", None,
                               {APIKeyResponse(k) : k \in found}))
        /\ UNCHANGED <<users, transactions, tx_data, verification, calls,
                       probe, outcome, account>>

\* get_api_key_usage
get_api_key_usage(w, caller, key_id) ==
    LET found == QueryKey(key_id) \cap KeysOf(caller)
    IN  /\ pc[w] = "idle"
        /\ op' = [op EXCEPT ![w] = "get_api_key_usage"]
        /\ IF found = {}
           THEN Finish(w, Response("404", "API key not found"))
           ELSE Finish(w, Reply("200", None, {APIKeyUsage(k) : k \in found}))
        /\ UNCHANGED <<users, transactions, tx_data, verification, calls,
                       probe, outcome, account>>

\* db.delete(row); db.commit()
Delete(table, row) == table (-) SetToBag({row})

\* delete_api_key
delete_api_key(w, caller, key_id) ==
    LET found == QueryKey(key_id) \cap KeysOf(caller)
    IN  /\ pc[w] = "idle"
        /\ op' = [op EXCEPT ![w] = "delete_api_key"]
        /\ IF found = {}
           THEN /\ Finish(w, Response("404", "API key not found"))
                /\ api_keys' = api_keys
           ELSE /\ api_keys' = Delete(api_keys, CHOOSE k \in found : TRUE)
                /\ Finish(w, Response("200", "API key deleted successfully"))
        /\ UNCHANGED <<users, transactions, tx_data, verification, calls,
                       probe, outcome, api_usage, loaded, tokens, nonce_seq>>

Unauthorized(detail) == Response("401", detail)

\* verify_api_key, up to the checks: the session loads the row of
\* api_key_id and compares the digest of api_key_secret with its hash.
verify_api_key(w, api_key_id, api_key_secret) ==
    LET found == QueryKey(api_key_id)
        db_api_key == CHOOSE k \in found : TRUE
    IN  /\ pc[w] = "idle"
        /\ op' = [op EXCEPT ![w] = "verify_api_key"]
        /\ IF found = {}
           THEN /\ Finish(w, Unauthorized("invalid API key"))
                /\ loaded' = loaded
           ELSE IF db_api_key.secret_key_hash # sha256_hexdigest(api_key_secret)
           THEN /\ Finish(w, Unauthorized("invalid API key secret"))
                /\ loaded' = loaded
           ELSE IF ~db_api_key.is_active
           THEN /\ Finish(w, Unauthorized("inactive API key"))
                /\ loaded' = loaded
           ELSE /\ db_api_key.call_count < MaxCalls
                /\ loaded' = [loaded EXCEPT ![w] = db_api_key]
                /\ pc' = [pc EXCEPT ![w] = "count"]
                /\ resp' = resp
        /\ UNCHANGED <<users, transactions, tx_data, verification, calls,
                       probe, outcome, api_keys, api_usage, tokens, nonce_seq>>

\* A row of APIUsage.
APIUsage(api_key_id) == [api_key_id |-> api_key_id]

\* Table "api_keys" after UPDATE ... SET call_count = value for the key.
SetCallCount(key_id, value) ==
    LET Up(k) == IF k.key_id = key_id THEN [k EXCEPT !.call_count = value]
                 ELSE k
        S == BagToSet(api_keys)
    IN  [r \in {Up(k) : k \in S} |-> 1]

\* verify_api_key: db_api_key.call_count += 1; db.add(api_usage);
\* db.commit().  The session writes the count it loaded plus one; a row
\* deleted in the meantime fails the commit.
verify_api_key_commit(w) ==
    /\ pc[w] = "count"
    /\ IF QueryKey(loaded[w].key_id) = {}
       THEN /\ Finish(w, Response("500", "StaleDataError"))
            /\ UNCHANGED <<api_keys, api_usage>>
       ELSE /\ api_keys' = SetCallCount(loaded[w].key_id,
                                        loaded[w].call_count + 1)
            /\ api_usage' = Insert(api_usage, APIUsage(loaded[w].key_id))
            /\ Finish(w, Response("200", None))
    /\ loaded' = [loaded EXCEPT ![w] = NoKey]
    /\ UNCHANGED <<users, transactions, op, tx_data, verification, calls,
                   probe, outcome, tokens, nonce_seq>>

\* generate_nonce(): a value not handed out before.
generate_nonce == nonce_seq + 1

\* create_auth_message(wallet_address, nonce)
create_auth_message(wallet_address, nonce) == <<wallet_address, nonce>>

\* A signature: who made it and over which message.
Signatures ==
    {[signer |-> Lower(a), message |-> create_auth_message(Lower(b), n)] :
        a \in Signers, b \in LoginWallets, n \in 1..MaxNonces}

\* verify_signature(message, signature, wallet_address)
verify_signature(message, signature, wallet_address) ==
    signature.signer = wallet_address /\ signature.message = message

\* Variant: asking for a nonce also clears the wallet's token balance.
SetNonce_ClearingBalance(wallet_address, nonce) ==
    LET Up(u) == IF u.wallet_address = wallet_address
                 THEN [u EXCEPT !.nonce = nonce, !.token_balance = 0] ELSE u
        S == BagToSet(users)
    IN  [r \in {Up(u) : u \in S} |-> 1]

\* Table "users" with the nonce of the wallet's row set.
SetNonce(wallet_address, nonce) ==
    LET Up(u) == IF u.wallet_address = wallet_address
                 THEN [u EXCEPT !.nonce = nonce] ELSE u
        S == BagToSet(users)
    IN  [r \in {Up(u) : u \in S} |-> 1]

\* get_nonce
get_nonce(w, wallet) ==
    LET wallet_address == Lower(wallet)
        nonce == generate_nonce
    IN  /\ pc[w] = "idle"
        /\ nonce_seq < MaxNonces
        /\ op' = [op EXCEPT ![w] = "get_nonce"]
        /\ nonce_seq' = nonce
        /\ users' = IF QueryUser(wallet_address) # {}
                    THEN SetNonce(wallet_address, nonce)
                    ELSE Insert(users, [User(wallet_address) EXCEPT
                                            !.nonce = nonce])
        /\ Finish(w, Reply("200", None,
                           {create_auth_message(wallet_address, nonce)}))
        /\ UNCHANGED <<transactions, tx_data, verification, calls, probe,
                       outcome, api_keys, api_usage, loaded, tokens>>

NonceAfterVerify_Kept(user) == user.nonce

\* user.nonce = generate_nonce(): the nonce verify_wallet_signature leaves in
\* the row of the wallet that logged in.
NonceAfterVerify(user) == generate_nonce

\* create_access_token(data={"sub": wallet_address}); nonce is the one the
\* accepted signature was made over.
AccessToken(wallet_address, nonce) == [sub |-> wallet_address, nonce |-> nonce]

\* verify_wallet_signature
verify_wallet_signature(w, wallet, signature) ==
    LET wallet_address == Lower(wallet)
        found == QueryUser(wallet_address)
        user == CHOOSE u \in found : TRUE
        message == create_auth_message(wallet_address, user.nonce)
    IN  /\ pc[w] = "idle"
        /\ nonce_seq < MaxNonces
        /\ op' = [op EXCEPT ![w] = "verify_wallet_signature"]
        /\ IF found = {}
           THEN /\ Finish(w, Unauthorized("Invalid wallet address"))
                /\ UNCHANGED <<users, tokens, nonce_seq>>
           ELSE IF ~verify_signature(message, signature, wallet_address)
           THEN /\ Finish(w, Unauthorized("Invalid signature"))
                /\ UNCHANGED <<users, tokens, nonce_seq>>
           ELSE /\ users' = SetNonce(wallet_address, NonceAfterVerify(user))
                /\ nonce_seq' = generate_nonce
                /\ tokens' = Insert(tokens,
                                    AccessToken(wallet_address, user.nonce))
                /\ Finish(w, Reply("200", None, {user.token_balance}))
        /\ UNCHANGED <<transactions, tx_data, verification, calls, probe,
                       outcome, api_keys, api_usage, loaded>>

\* API keys the database may hold when the service starts: issued by
\* create_api_key (bcrypt hash) or provisioned with the digest
\* verify_api_key compares (sha256), active or not, expired or not.
StoredKeys ==
    {[APIKey("k0", h, "0xAD01", e) EXCEPT !.is_active = a] :
        h \in {pwd_context_hash("s1"), sha256_hexdigest("s1")},
        e \in {now - 1, now + 1}, a \in BOOLEAN}

\* The database of a service that has run before: the operator's account
\* with the token balance the operator granted it, and at most one API key.
AccountInit ==
    /\ Idle
    /\ probe = NoProbe
    /\ outcome = NoOutcome
    /\ transactions = EmptyBag
    /\ api_usage = EmptyBag
    /\ tokens = EmptyBag
    /\ nonce_seq = 0
    /\ \E b \in 0..1 :
           users = SetToBag({[AdminUser EXCEPT !.token_balance = b]})
    /\ \E ks \in SUBSET StoredKeys :
           Cardinality(ks) <= 1 /\ api_keys = SetToBag(ks)

AccountNext ==
    \/ \E a \in LoginWallets : get_nonce(EventLoop, a)
    \/ \E a \in LoginWallets, sig \in Signatures :
           verify_wallet_signature(EventLoop, a, sig)
    \/ \E caller \in BagToSet(users), k \in KeyIds, s \in Secrets :
           create_api_key(EventLoop, caller, k, s)
    \/ \E caller \in BagToSet(users) : list_api_keys(EventLoop, caller)
    \/ \E caller \in BagToSet(users), k \in KeyIds :
           get_api_key(EventLoop, caller, k)
    \/ \E caller \in BagToSet(users), k \in KeyIds :
           get_api_key_usage(EventLoop, caller, k)
    \/ \E caller \in BagToSet(users), k \in KeyIds :
           delete_api_key(EventLoop, caller, k)
    \/ \E w \in Workers :
           \/ \E k \in KeyIds, s \in Secrets : verify_api_key(w, k, s)
           \/ verify_api_key_commit(w)
           \/ Return(w)

\* Wallet login and API keys, on their own.
AccountSpec == AccountInit /\ [][AccountNext]_vars

\* ------------------------------------------------------ the whole service

\* The private keys a request may carry: the caller's key, and a string that
\* is no key.
PrivateKeys == {"0xk1", "0xkk"}

WellFormedKeys == {"0xk1"}

sign_transaction_EchoKey(private_key, sent, tx_hash) ==
    [raised |-> FALSE, value |-> private_key]

\* sign_transaction: signs with the key and sends the raw transaction; the
\* library's exception is re-raised. sent is whether the node accepts the
\* transaction, tx_hash the hash it is sent under.
sign_transaction(private_key, sent, tx_hash) ==
    IF private_key \notin WellFormedKeys
    THEN [raised |-> TRUE, value |-> "SigningError"]
    ELSE IF ~sent
    THEN [raised |-> TRUE, value |-> "BroadcastError"]
    ELSE [raised |-> FALSE, value |-> tx_hash]

\* sign_deposit_transaction: signs and sends the caller's deposit. The
\* handler has no database session; the call of sign_transaction is its one
\* gateway call.
sign_deposit_transaction(w, caller, wallet_address, private_key, sent, tx_hash) ==
    LET signed == sign_transaction(private_key, sent, tx_hash)
    IN  /\ pc[w] = "idle"
        /\ op' = [op EXCEPT ![w] = "deposit_sign"]
        /\ IF Lower(caller.wallet_address) # Lower(wallet_address)
           THEN /\ Finish(w, Forbidden)
                /\ UNCHANGED calls
           ELSE /\ calls' = [calls EXCEPT ![w] = 1]
                /\ IF signed.raised
                   THEN Finish(w, Response("400", signed.value))
                   ELSE Finish(w, Reply("200", None, {signed.value}))
        /\ UNCHANGED <<users, transactions, tx_data, verification,
                       probe, outcome, account>>

\* Databases the service may be holding when a request arrives: the
\* operator's account, with or without a depositor (and the ledger entry of
\* the deposit), with or without a wallet that has asked for a nonce, each
\* account with the token balance the operator granted it, a withdrawal
\* request pending or not, and at most one API key.
ServiceInit ==
    /\ Idle
    /\ probe = NoProbe
    /\ outcome = NoOutcome
    /\ api_usage = EmptyBag
    /\ tokens = EmptyBag
    /\ \E b \in 0..1, deposited \in BOOLEAN, asked \in BOOLEAN,
          requested \in BOOLEAN :
           /\ users = SetToBag(
                  {[AdminUser EXCEPT !.token_balance = b]}
                  \cup (IF deposited THEN {User("0xAA01")} ELSE {})
                  \cup (IF asked
                        THEN {[User("0xaa01") EXCEPT !.nonce = 1,
                                                     !.token_balance = 1 - b]}
                        ELSE {}))
           /\ nonce_seq = IF asked THEN 1 ELSE 0
           /\ transactions = SetToBag(
                  (IF deposited
                   THEN {Transaction("0xAA01", "0xd1", 5, "deposit",
                                     "confirmed")}
                   ELSE {})
                  \cup (IF requested
                        THEN {Transaction("0xAD01", "pending", 1,
                                          "withdraw_request", "pending")}
                        ELSE {}))
    /\ \E ks \in SUBSET StoredKeys :
           Cardinality(ks) <= 1 /\ api_keys = SetToBag(ks)

\* Any one operation of the service, run from its request to its response.
ServiceNext ==
    \/ \E h \in TxHashes, rpc_ok \in BOOLEAN :
           notify_deposit_transaction(EventLoop, h, rpc_ok)
    \/ notify_deposit_add_user(EventLoop)
    \/ notify_deposit_add_tx(EventLoop)
    \/ \E caller \in BagToSet(users), h \in TxHashes, rpc_ok \in BOOLEAN :
           notify_withdraw_transaction(EventLoop, caller, h, rpc_ok)
    \/ notify_withdraw_add_tx(EventLoop)
    \/ \E caller \in BagToSet(users), h \in TxHashes, rpc_ok \in BOOLEAN :
           notify_usage_deduction_transaction(EventLoop, caller, h, rpc_ok)
    \/ notify_usage_deduction_add_tx(EventLoop)
    \/ \E caller \in BagToSet(users), a \in Wallets, amount \in 1..MaxAmount,
          balance \in 0..MaxAmount :
           request_withdraw(EventLoop, caller, a, amount, balance)
    \/ \E caller \in BagToSet(users), a \in Wallets, amount \in 1..MaxAmount,
          balance \in 0..MaxAmount :
           deduct_for_usage(EventLoop, caller, a, amount, balance)
    \/ \E caller \in BagToSet(users), a \in Wallets, k \in PrivateKeys,
          sent \in BOOLEAN :
           sign_deposit_transaction(EventLoop, caller, a, k, sent, "0xd1")
    \/ \E a \in LoginWallets : get_nonce(EventLoop, a)
    \/ \E a \in LoginWallets, sig \in Signatures :
           verify_wallet_signature(EventLoop, a, sig)
    \/ \E caller \in BagToSet(users), k \in KeyIds, s \in Secrets :
           create_api_key(EventLoop, caller, k, s)
    \/ \E caller \in BagToSet(users) : list_api_keys(EventLoop, caller)
    \/ \E caller \in BagToSet(users), k \in KeyIds :
           get_api_key(EventLoop, caller, k)
    \/ \E caller \in BagToSet(users), k \in KeyIds :
           get_api_key_usage(EventLoop, caller, k)
    \/ \E caller \in BagToSet(users), k \in KeyIds :
           delete_api_key(EventLoop, caller, k)
    \/ \E k \in KeyIds, s \in Secrets : verify_api_key(EventLoop, k, s)
    \/ verify_api_key_commit(EventLoop)

\* Every operation of the service applied once to every database within
\* bounds.
ServiceSpec == ServiceInit /\ [][ServiceNext]_vars

\* ------------------------------------------------------- deposit, then a key

\* The service at start: the operator's account, funded or not, no ledger
\* entry and no key.
OnboardingInit ==
    /\ Idle
    /\ NoAccounts
    /\ probe = NoProbe
    /\ outcome = NoOutcome
    /\ transactions = EmptyBag
    /\ \E b \in 0..1 :
           users = SetToBag({[AdminUser EXCEPT !.token_balance = b]})

OnboardingNext ==
    \/ \E h \in TxHashes, rpc_ok \in BOOLEAN :
           notify_deposit_transaction(EventLoop, h, rpc_ok)
    \/ notify_deposit_add_user(EventLoop)
    \/ notify_deposit_add_tx(EventLoop)
    \/ \E a \in LoginWallets : get_nonce(EventLoop, a)
    \/ \E caller \in BagToSet(users), k \in KeyIds, s \in Secrets :
           create_api_key(EventLoop, caller, k, s)
    \/ Return(EventLoop)

\* Deposit notifications, nonce requests and key issuance, one request after
\* the other.
OnboardingSpec == OnboardingInit /\ [][OnboardingNext]_vars

\* -------------------------------------------------------- price aggregation

\* A reader's return value: a price, or None once its retries are used up.
NoReading == [none |-> TRUE, value |-> 0]

Reading(value) == [none |-> FALSE, value |-> value]

Prices == 0..MaxPrice

Readings == {NoReading} \cup {Reading(v) : v \in Prices}

\* A future that has been submitted and has not returned.
Running == [none |-> TRUE, value |-> -1]

KimchiFutures == {"binance_btc_future", "upbit_btc_future", "usd_krw_future"}

PriceFutures == {"btc_future", "eth_future", "xrp_future"}

\* The futures that run get_binance_price.
BinanceFutures == {"binance_btc_future"} \cup PriceFutures

NoPriceRequest ==
    [kind |-> "price", endpoint |-> None, futures |-> [f \in {} |-> Running]]

NoPriceResponse == [status |-> None, detail |-> None, body |-> [none |-> TRUE]]

ServiceUnavailable(detail) ==
    [status |-> "503", detail |-> detail, body |-> [none |-> TRUE]]

\* get_usd_krw_rate: Naver first, Yahoo when Naver returned None.
get_usd_krw_rate(naver, yahoo) == IF naver.none THEN yahoo ELSE naver

\* calculate_premium: None when an argument is falsy, otherwise the ratio
\* (upbit - binance * rate) * 100 / (binance * rate), kept as a fraction.
calculate_premium(binance_price, upbit_price_krw, exchange_rate) ==
    IF binance_price = 0 \/ upbit_price_krw = 0 \/ exchange_rate = 0
    THEN [none |-> TRUE, num |-> 0, den |-> 1]
    ELSE [none |-> FALSE,
          num |-> (upbit_price_krw - binance_price * exchange_rate) * 100,
          den |-> binance_price * exchange_rate]

\* The handler submits its three readers to the executor.
submit(endpoint, futures) ==
    /\ outcome = NoPriceResponse
    /\ probe' = [NoPriceRequest EXCEPT
                    !.endpoint = endpoint,
                    !.futures = [f \in futures |-> Running]]
    /\ UNCHANGED outcome
    /\ UNCHANGED <<users, transactions, pc, op, tx_data, verification, calls,
                   resp, account>>

get_kimchi_premium_submit ==
    /\ probe = NoPriceRequest
    /\ submit("/kimchi-premium", KimchiFutures)

get_crypto_prices_submit ==
    /\ probe = NoPriceRequest
    /\ submit("/prices", PriceFutures)

\* A running future returns.
Returns(f, reading) ==
    /\ f \in DOMAIN probe.futures
    /\ probe.futures[f] = Running
    /\ probe' = [probe EXCEPT !.futures[f] = reading]
    /\ UNCHANGED outcome
    /\ UNCHANGED <<users, transactions, pc, op, tx_data, verification, calls,
                   resp, account>>

get_binance_price(f) ==
    /\ probe.kind = "price"
    /\ f \in BinanceFutures
    /\ \E reading \in Readings : Returns(f, reading)

get_upbit_btc_price ==
    /\ probe.kind = "price"
    /\ \E reading \in Readings : Returns("upbit_btc_future", reading)

run_get_usd_krw_rate ==
    /\ probe.kind = "price"
    /\ \E naver \in Readings, yahoo \in Readings :
        Returns("usd_krw_future", get_usd_krw_rate(naver, yahoo))

\* Every future of the request has returned.
Collected ==
    /\ probe.kind = "price"
    /\ outcome = NoPriceResponse
    /\ \A f \in DOMAIN probe.futures : probe.futures[f] # Running

\* get_kimchi_premium past the executor block.
get_kimchi_premium ==
    /\ probe.endpoint = "/kimchi-premium"
    /\ Collected
    /\ LET binance_btc_price == probe.futures["binance_btc_future"]
           upbit_btc_price == probe.futures["upbit_btc_future"]
           usd_krw_rate == probe.futures["usd_krw_future"]
           premium == calculate_premium(binance_btc_price.value,
                                        upbit_btc_price.value,
                                        usd_krw_rate.value)
       IN  outcome' =
             IF \/ binance_btc_price.none
                \/ upbit_btc_price.none
                \/ usd_krw_rate.none
             THEN ServiceUnavailable("cannot read every price")
             ELSE IF premium.none
             THEN ServiceUnavailable("cannot calculate the premium")
             ELSE [status |-> "200", detail |-> None,
                   body |-> [none |-> FALSE,
                             premium_percentage |-> premium,
                             binance_price_usd |-> binance_btc_price.value,
                             upbit_price_krw |-> upbit_btc_price.value,
                             exchange_rate |-> usd_krw_rate.value]]
    /\ UNCHANGED probe
    /\ UNCHANGED <<users, transactions, pc, op, tx_data, verification, calls,
                   resp, account>>

\* The symbol a future of /prices reads.
Symbol(f) ==
    CASE f = "btc_future" -> "BTC"
      [] f = "eth_future" -> "ETH"
      [] f = "xrp_future" -> "XRP"

\* get_crypto_prices past the executor block: the None values are filtered
\* out and the response fails only when nothing is left.
get_crypto_prices ==
    /\ probe.endpoint = "/prices"
    /\ Collected
    /\ LET kept == {f \in PriceFutures : ~probe.futures[f].none}
           prices == {<<Symbol(f), probe.futures[f].value>> : f \in kept}
       IN  outcome' =
             IF prices = {}
             THEN ServiceUnavailable("cannot read the prices")
             ELSE [status |-> "200", detail |-> None,
                   body |-> [none |-> FALSE, prices |-> prices,
                             currency |-> "USD"]]
    /\ UNCHANGED probe
    /\ UNCHANGED <<users, transactions, pc, op, tx_data, verification, calls,
                   resp, account>>

PriceInit ==
    /\ Started
    /\ probe = NoPriceRequest
    /\ outcome = NoPriceResponse

PriceNext ==
    \/ get_kimchi_premium_submit
    \/ get_crypto_prices_submit
    \/ \E f \in BinanceFutures : get_binance_price(f)
    \/ get_upbit_btc_price
    \/ run_get_usd_krw_rate
    \/ get_kimchi_premium
    \/ get_crypto_prices

\* One request to an aggregation endpoint, its readers returning in any order.
PriceSpec == PriceInit /\ [][PriceNext]_vars

\* ------------------------------------------------------------ price fetchers

\* The fetchers whose loop tests what the attempt has read before returning
\* it, and the one that returns whatever the ticker holds.
LoopFetchers ==
    {"get_binance_price", "get_upbit_btc_price", "get_upbit_usdt_price",
     "get_usd_krw_rate_naver"}

Fetchers == LoopFetchers \cup {"get_usd_krw_rate_yahoo"}

\* What one attempt comes to: an exception, a response with nothing in it,
\* or a response with a value.
Raises == [kind |-> "raised", value |-> NoReading]

Empty == [kind |-> "empty", value |-> NoReading]

Data(reading) == [kind |-> "data", value |-> reading]

NoAttempt == [kind |-> None, value |-> NoReading]

\* float(...) of a field of the response is a number; the regularMarketPrice
\* entry of the ticker's info is whatever the ticker holds, None included.
AttemptResults(fetcher) ==
    IF fetcher \in LoopFetchers
    THEN {Raises, Empty} \cup {Data(Reading(v)) : v \in Prices}
    ELSE {Raises} \cup {Data(r) : r \in Readings}

NoReturn == [returned |-> FALSE, value |-> NoReading]

Return_(value) == [returned |-> TRUE, value |-> value]

\* One pass of for attempt in range(max_retries + 1) in a fetcher that
\* tests its data: a value is returned, anything else is retried until the
\* last pass, which returns None.
get_price_attempt(result) ==
    LET attempt == probe.attempt
    IN  /\ probe.kind = "fetch"
        /\ probe.fetcher \in LoopFetchers
        /\ ~outcome.returned
        /\ attempt <= probe.max_retries
        /\ result \in AttemptResults(probe.fetcher)
        /\ probe' = [probe EXCEPT !.attempt = attempt + 1, !.last = result]
        /\ outcome' = IF result.kind = "data" THEN Return_(result.value)
                      ELSE IF attempt < probe.max_retries THEN outcome
                      ELSE Return_(NoReading)
        /\ UNCHANGED <<users, transactions, pc, op, tx_data, verification,
                       calls, resp, account>>

\* One pass of the loop of get_usd_krw_rate_yahoo: the entry of the ticker's
\* info is returned as it is, an exception is retried until the last pass.
get_usd_krw_rate_yahoo_attempt(result) ==
    LET attempt == probe.attempt
    IN  /\ probe.kind = "fetch"
        /\ probe.fetcher = "get_usd_krw_rate_yahoo"
        /\ ~outcome.returned
        /\ attempt <= probe.max_retries
        /\ result \in AttemptResults(probe.fetcher)
        /\ probe' = [probe EXCEPT !.attempt = attempt + 1, !.last = result]
        /\ outcome' = IF result.kind # "raised" THEN Return_(result.value)
                      ELSE IF attempt < probe.max_retries THEN outcome
                      ELSE Return_(NoReading)
        /\ UNCHANGED <<users, transactions, pc, op, tx_data, verification,
                       calls, resp, account>>

FetchInit ==
    /\ Started
    /\ probe \in {[kind |-> "fetch", fetcher |-> f, max_retries |-> m,
                    attempt |-> 0, last |-> NoAttempt] :
                       f \in Fetchers, m \in 0..MaxRetries}
    /\ outcome = NoReturn

FetchNext ==
    \/ \E result \in AttemptResults("get_binance_price") :
           get_price_attempt(result)
    \/ \E result \in AttemptResults("get_usd_krw_rate_yahoo") :
           get_usd_krw_rate_yahoo_attempt(result)

\* Each fetcher called once with every max_retries within bounds, its
\* attempts coming out in every way.
FetchSpec == FetchInit /\ [][FetchNext]_vars

\* ---------------------------------------------------------- unit conversion

RECURSIVE Pow(_, _)
Pow(base, k) == IF k = 0 THEN 1 ELSE base * Pow(base, k - 1)

\* 10**18 of the code, at the model's scale.
Unit == Pow(10, Decimals)

\* A binary floating-point number m * 2^e, its significand m of at most
\* MantissaBits bits.
Float(m, e) == [m |-> m, e |-> e]

\* Numerator and denominator of the number a float stands for.
Numer(x) == IF x.e >= 0 THEN x.m * Pow(2, x.e) ELSE x.m

Denom(x) == IF x.e >= 0 THEN 1 ELSE Pow(2, 0 - x.e)

\* n / (d * 2^e) with 2^(MantissaBits-1) <= n/d < 2^MantissaBits, rounded to
\* the nearest significand, ties to even.
Nearest(n, d, e) ==
    LET q == n \div d
        r == n % d
        m == IF 2 * r > d \/ (2 * r = d /\ q % 2 = 1) THEN q + 1 ELSE q
    IN  IF m = Pow(2, MantissaBits)
        THEN Float(Pow(2, MantissaBits - 1), e + 1)
        ELSE Float(m, e)

\* The float nearest to n / d * 2^e, for n >= 0 and d > 0.
RECURSIVE Round(_, _, _)
Round(n, d, e) ==
    IF n = 0 THEN Float(0, 0)
    ELSE IF n >= Pow(2, MantissaBits) * d THEN Round(n, 2 * d, e + 1)
    ELSE IF n < Pow(2, MantissaBits - 1) * d THEN Round(2 * n, d, e - 1)
    ELSE Nearest(n, d, e)

\* float(i) of an integer.
float(i) == Round(i, 1, 0)

\* The float division x / y and the float product x * y.
truediv(x, y) == Round(Numer(x) * Denom(y), Denom(x) * Numer(y), 0)

mul(x, y) == Round(Numer(x) * Numer(y), Denom(x) * Denom(y), 0)

\* int(x), truncating.
int(x) == Numer(x) \div Denom(x)

\* wei_to_hsk: float(wei_amount) / 10**18.
wei_to_hsk(wei_amount) == truediv(float(wei_amount), float(Unit))

\* hsk_to_wei: int(hsk_amount * 10**18).
hsk_to_wei(hsk_amount) == int(mul(hsk_amount, float(Unit)))

NoConversion == [fn |-> None, hsk |-> Float(0, 0), wei |-> 0]

\* wei_to_hsk applied to the probed amount.
call_wei_to_hsk ==
    /\ probe.kind = "wei"
    /\ outcome = NoConversion
    /\ outcome' = [NoConversion EXCEPT
                      !.fn = "wei_to_hsk",
                      !.hsk = wei_to_hsk(probe.wei_amount)]
    /\ UNCHANGED <<users, transactions, pc, op, tx_data, verification, calls,
                   resp, probe, account>>

\* hsk_to_wei applied to the result of wei_to_hsk.
call_hsk_to_wei ==
    /\ probe.kind = "wei"
    /\ outcome.fn = "wei_to_hsk"
    /\ outcome' = [outcome EXCEPT
                      !.fn = "hsk_to_wei",
                      !.wei = hsk_to_wei(outcome.hsk)]
    /\ UNCHANGED <<users, transactions, pc, op, tx_data, verification, calls,
                   resp, probe, account>>

ConversionInit ==
    /\ Started
    /\ probe \in {[kind |-> "wei", wei_amount |-> w] : w \in 0..MaxWei}
    /\ outcome = NoConversion

ConversionNext ==
    \/ call_wei_to_hsk
    \/ call_hsk_to_wei

\* The two conversions applied in turn to every amount within bounds.
ConversionSpec == ConversionInit /\ [][ConversionNext]_vars

\* ------------------------------------------------------------- properties

NotifyOps == {"deposit_notify", "withdraw_notify", "usage_notify"}

\* The ledger rows of a table state.
RowsOf(table) == BagToSet(table)

\* The off-chain balance of a wallet: the balance column of its user row,
\* 0 for a wallet with no row.
BalanceOf(us, a) ==
    IF \E u \in BagToSet(us) : u.wallet_address = a
    THEN (CHOOSE u \in BagToSet(us) : u.wallet_address = a).balance
    ELSE 0

Balances(us) == [a \in Wallets |-> BalanceOf(us, a)]

\* Worker w takes a step of a notify handler for hash h.
NotifyStep(w, h) ==
    /\ pc[w] # "done"
    /\ pc'[w] # pc[w]
    /\ op'[w] \in NotifyOps
    /\ tx_data'[w] = h

\* C1: once a notify of a tx_hash has returned, every step of a second
\* notify of the same tx_hash (deposit, withdraw or usage) leaves the
\* off-chain balance of every wallet as it was: the second call writes no
\* balance.
C1_SecondNotifyWritesNoBalance ==
    [][\A w1, w2 \in Workers :
          (/\ w1 # w2
           /\ pc[w1] = "done"
           /\ op[w1] \in NotifyOps
           /\ NotifyStep(w2, tx_data[w1]))
          => Balances(users') = Balances(users)]_vars

\* C1 witness: a verified deposit of a positive amount was recorded, and a
\* second notify of the same hash has run to its end.
C1_Witness ==
    \E w1, w2 \in Workers :
        /\ w1 # w2
        /\ pc[w1] = "done" /\ op[w1] = "deposit_notify"
        /\ resp[w1].status = "success" /\ verification[w1].amount > 0
        /\ pc[w2] = "done" /\ op[w2] \in NotifyOps
        /\ tx_data[w2] = tx_data[w1]
        /\ verification[w2].success
        /\ resp[w2].status = "error"

\* C2: the commit of a verified deposit of amount A for user U raises the
\* balance of U by exactly A and changes no other balance.
C2_DepositCreditsBalance ==
    [][\A w \in Workers :
          (/\ op[w] = "deposit_notify"
           /\ pc[w] = "add_tx"
           /\ pc'[w] = "done"
           /\ resp'[w].status = "success")
          => \A a \in Wallets :
                BalanceOf(users', a) =
                    BalanceOf(users, a)
                    + (IF a = verification[w].user THEN verification[w].amount ELSE 0)]_vars

\* Copies of ledger rows with tx_hash h that satisfy P, duplicates counted.
RECURSIVE CountRows(_, _, _)
CountRows(table, S, h) ==
    IF S = {} THEN 0
    ELSE LET t == CHOOSE x \in S : TRUE
         IN  (IF t.tx_hash = h THEN CopiesIn(t, table) ELSE 0)
             + CountRows(table, S \ {t}, h)

Confirmed(table) == {t \in RowsOf(table) : t.status = "confirmed"}

\* C3: whatever the interleaving of notifications of one tx_hash, the ledger
\* holds at most one completed entry for it, at most one of the
\* notifications is answered "success", and no balance has been written.
C3_OneCompletionPerHash ==
    /\ \A h \in TxHashes : CountRows(transactions, Confirmed(transactions), h) <= 1
    /\ \A w1, w2 \in Workers :
          (/\ w1 # w2
           /\ tx_data[w1] = tx_data[w2]
           /\ op[w1] \in NotifyOps /\ op[w2] \in NotifyOps
           /\ resp[w1].status = "success")
          => resp[w2].status # "success"
    /\ \A a \in Wallets : BalanceOf(users, a) = 0

\* C3 witness: two notifications of one hash are both verified and both
\* about to insert their ledger row, none being recorded yet.
C3_Witness ==
    \E w1, w2 \in Workers :
        /\ w1 # w2
        /\ pc[w1] = "add_tx" /\ pc[w2] = "add_tx"
        /\ tx_data[w1] = tx_data[w2]
        /\ verification[w1].amount > 0
        /\ \A t \in RowsOf(transactions) : t.tx_hash # tx_data[w1]

\* C4: no two ledger entries share a transaction hash.
C4_UniqueTxHash ==
    \A t \in RowsOf(transactions) :
        CountRows(transactions, RowsOf(transactions), t.tx_hash) = 1

\* C4 witness: the ledger holds a request entry and a notified entry, and
\* an insert of a hash already present has been refused.
C4_Witness ==
    /\ \E t \in RowsOf(transactions) : t.tx_hash = "pending"
    /\ \E t \in RowsOf(transactions) : t.tx_hash \in TxHashes
    /\ \E w \in Workers : pc[w] = "done" /\ resp[w].message = IntegrityError

\* The amount of a ledger row as it bears on the balance: a deposit adds,
\* a withdrawal or usage deduction subtracts.
SignedAmount(t) ==
    IF t.tx_type = "deposit" THEN t.amount ELSE 0 - t.amount

RECURSIVE SumSigned(_, _)
SumSigned(table, S) ==
    IF S = {} THEN 0
    ELSE LET t == CHOOSE x \in S : TRUE
         IN  SignedAmount(t) * CopiesIn(t, table) + SumSigned(table, S \ {t})

\* C5: completion is atomic: in every state the balance of each wallet is
\* the sum of the signed amounts of its completed ledger entries, so an
\* entry is completed exactly when its amount has been applied.
C5_CompletedIffApplied ==
    \A a \in Wallets :
        BalanceOf(users, a) =
            SumSigned(transactions,
                      {t \in Confirmed(transactions) : t.user_wallet = a})

Terminal == {"confirmed", "failed"}

\* C6: a notify that arrives for a tx_hash whose ledger entry is in a
\* terminal state returns at once without a chain gateway call.
C6_DuplicateSkipsGateway ==
    [][\A w \in Workers :
          (/\ pc[w] = "idle"
           /\ op'[w] \in NotifyOps
           /\ \E t \in RowsOf(transactions) :
                 t.tx_hash = tx_data'[w] /\ t.status \in Terminal)
          => (calls'[w] = 0 /\ pc'[w] = "done")]_vars

\* C7: when a notify makes its first chain gateway call, a ledger entry
\* reserving its tx_hash is already persisted.
C7_ReservationPrecedesVerify ==
    [][\A w \in Workers :
          (/\ op'[w] \in NotifyOps
           /\ calls[w] = 0
           /\ calls'[w] > 0)
          => \E t \in RowsOf(transactions) : t.tx_hash = tx_data'[w]]_vars

\* C8: after a notify whose verification failed, the ledger holds an entry
\* for the notified tx_hash in state failed.
C8_FailedVerificationRecorded ==
    \A w \in Workers :
        (/\ pc[w] = "done"
         /\ op[w] \in NotifyOps
         /\ calls[w] > 0
         /\ ~verification[w].success)
        => /\ resp[w].status = "failed"
           /\ \E t \in RowsOf(transactions) :
                 t.tx_hash = tx_data[w] /\ t.status = "failed"

\* C9: every ledger entry is created pending, and an entry in a terminal
\* state stays as it is.
C9_Lifecycle ==
    [][/\ \A t \in RowsOf(transactions') \ RowsOf(transactions) :
             \/ t.status = "pending"
             \/ \E s \in RowsOf(transactions) :
                   s.status = "pending" /\ s.tx_hash = t.tx_hash
       /\ \A t \in RowsOf(transactions) :
             t.status \in Terminal => t \in RowsOf(transactions')]_vars

HasPending == \E t \in RowsOf(transactions) : t.status = "pending"

\* C10: a ledger entry in state pending eventually leaves that state.
C10_NoPendingForever == HasPending ~> ~HasPending

\* The tx_type a notify handler records.
RecordedType(o) ==
    CASE o = "deposit_notify"  -> "deposit"
      [] o = "withdraw_notify" -> "withdraw"
      [] o = "usage_notify"    -> "usage_deduction"
      [] OTHER                 -> None

\* C11: a notify of a tx_hash that the ledger already holds, processed by
\* the same kind of notify, is answered "success" (or already processed),
\* never "error".
C11_DuplicateAnsweredSuccess ==
    \A w \in Workers :
        (/\ pc[w] = "done"
         /\ op[w] \in NotifyOps
         /\ verification[w].success
         /\ \E t \in RowsOf(transactions) :
               /\ t.tx_hash = tx_data[w]
               /\ t.tx_type = RecordedType(op[w])
               /\ t.status \in Terminal)
        => resp[w].status = "success"

\* C12: deposit verification of a successfully mined transaction whose
\* recipient is not the deposit contract returns not-verified, whatever its
\* logs hold.
C12_DestinationChecked ==
    (/\ outcome.fn = "verify_deposit_transaction"
     /\ probe.tx.receipt = "success"
     /\ Lower(probe.tx.to) # Lower(DEPOSIT_CONTRACT_ADDRESS))
    => ~outcome.result.success

\* C13: deposit verification succeeds on a Deposit event only if the event's
\* user is, case-insensitively, the wallet expected for the notification.
C13_ActorChecked ==
    (/\ outcome.fn = "verify_deposit_transaction"
     /\ ~outcome.entered_fallback
     /\ outcome.result.success)
    => Lower(outcome.result.user) = Lower(probe.expected_wallet)

\* C14: with an expected amount supplied, deposit verification succeeds on a
\* Deposit event only if the event's amount equals it exactly.
C14_AmountChecked ==
    (/\ outcome.fn = "verify_deposit_transaction"
     /\ ~outcome.entered_fallback
     /\ outcome.result.success)
    => outcome.result.amount = probe.expected_amount

\* The handlers behind get_current_admin_user.
AdminOps == {"withdraw_notify", "usage_notify", "usage_request"}

\* Worker w starts one of the administrative handlers for a caller without
\* the administrative flag.
NonAdminCall(w) ==
    /\ pc[w] = "idle"
    /\ op'[w] \in AdminOps
    /\ \E caller \in BagToSet(users) :
        /\ ~caller.is_admin
        /\ \/ \E h \in TxHashes, rpc_ok \in BOOLEAN :
                  \/ notify_withdraw_transaction(w, caller, h, rpc_ok)
                  \/ notify_usage_deduction_transaction(w, caller, h, rpc_ok)
           \/ \E a \in Wallets, amount \in 1..MaxAmount,
                 balance \in 0..MaxAmount :
                  deduct_for_usage(w, caller, a, amount, balance)

\* C15: withdraw notify, usage notify and the usage-deduction request started
\* by a caller without the administrative flag end at once with a refusal,
\* make no gateway call and write no ledger entry, user or balance.
C15_NonAdminRefused ==
    [][\A w \in Workers :
          NonAdminCall(w) =>
              /\ pc'[w] = "done"
              /\ resp'[w] = Forbidden
              /\ calls'[w] = 0
              /\ transactions' = transactions
              /\ users' = users]_vars

C15_Witness ==
    \E w \in Workers :
        /\ pc[w] = "done"
        /\ op[w] \in AdminOps
        /\ resp[w] = Forbidden
        /\ \E t \in RowsOf(transactions) : t.status = "confirmed"

\* C16: a notify whose transaction has a receipt with status other than
\* success is answered "failed" and leaves a ledger entry of that hash
\* marked failed.
C16_FailedReceiptMarkedFailed ==
    \A w \in Workers :
        (/\ pc[w] = "done"
         /\ op[w] \in NotifyOps
         /\ calls[w] > 0
         /\ verification[w].message # RpcError
         /\ ChainTx(tx_data[w]).receipt = "failed")
        => /\ resp[w].status = "failed"
           /\ \E t \in RowsOf(transactions) :
                  t.tx_hash = tx_data[w] /\ t.status = "failed"

\* Decoding the receipt's logs was attempted and raised.
DecodeRaised(tx) == HasContractLog(tx) /\ tx.decode = "raises"

\* C17: deposit verification credits tx.from with tx.value through the
\* plain-transfer fallback only when decoding yielded no Deposit event, not
\* when decoding raised.
C17_FallbackOnlyWhenNoEvent ==
    (/\ outcome.fn = "verify_deposit_transaction"
     /\ outcome.entered_fallback
     /\ outcome.result.success)
    => ~DecodeRaised(probe.tx)

\* C18: a notify whose verification met a gateway connectivity error is not
\* answered with the status of a verification failure.
C18_ConnectivityErrorDistinct ==
    \A w \in Workers :
        (/\ pc[w] = "done"
         /\ op[w] \in NotifyOps
         /\ calls[w] > 0
         /\ verification[w].message = RpcError)
        => resp[w].status # "failed"

\* C19: a notify of a transaction that has no receipt yet is answered
\* "pending".
C19_AbsentReceiptPending ==
    \A w \in Workers :
        (/\ pc[w] = "done"
         /\ op[w] \in NotifyOps
         /\ calls[w] > 0
         /\ verification[w].message # RpcError
         /\ ChainTx(tx_data[w]).receipt = "absent")
        => resp[w].status = "pending"

\* C20: get_balance with the endpoint unreachable fails with
\* ChainUnavailable.
C20_UnreachableRaises ==
    (/\ outcome.fn = "get_balance"
     /\ probe.rpc = "unreachable")
    => outcome.raised = "ChainUnavailable"

\* The handlers that record a request for a later debit.
RequestOps == {"withdraw_request", "usage_request"}

\* Worker w runs request_withdraw or deduct_for_usage for the amount, with
\* get_balance having read the balance.
RequestCall(w, amount, balance) ==
    /\ pc[w] = "idle"
    /\ op'[w] \in RequestOps
    /\ \E caller \in BagToSet(users), a \in Wallets :
           \/ request_withdraw(w, caller, a, amount, balance)
           \/ deduct_for_usage(w, caller, a, amount, balance)

\* C21: a withdrawal or usage-deduction request writes an entry only if the
\* amount does not exceed the balance read from the contract; an amount above
\* it is answered 400 "Insufficient balance" and writes nothing.
C21_RequestWithinBalance ==
    [][\A w \in Workers :
          (pc[w] = "idle" /\ op'[w] \in RequestOps) =>
              \A amount \in 1..MaxAmount, balance \in 0..MaxAmount :
                  \/ /\ transactions' # transactions => amount <= balance
                     /\ (calls'[w] > 0 /\ amount > balance) =>
                            /\ resp'[w] = Response("400", "Insufficient balance")
                            /\ transactions' = transactions
                  \/ ~RequestCall(w, amount, balance)]_vars

C21_Witness ==
    /\ \E w \in Workers :
           /\ pc[w] = "done"
           /\ op[w] \in RequestOps
           /\ resp[w] = Response("400", "Insufficient balance")
    /\ \E t \in RowsOf(transactions) :
           t.tx_type \in RequestOps /\ t.status = "pending"

\* C23: every ledger entry recorded for a deposit carries a positive amount
\* and every entry recorded for a withdrawal or usage deduction a negative
\* one.
C23_SignedAmounts ==
    \A t \in RowsOf(transactions) :
        /\ t.tx_type = "deposit" => t.amount > 0
        /\ t.tx_type \in {"withdraw", "usage_deduction"} => t.amount < 0

\* The token balance of a wallet: the token_balance column of its user row,
\* 0 for a wallet with no row.
TokenBalanceOf(us, a) ==
    IF \E u \in BagToSet(us) : u.wallet_address = a
    THEN (CHOOSE u \in BagToSet(us) : u.wallet_address = a).token_balance
    ELSE 0

TokenBalances(us) == [a \in Wallets |-> TokenBalanceOf(us, a)]

\* The step in which a notify handler records the verified transaction.
VerifiedNotifyRecorded ==
    \E w \in Workers :
        /\ op[w] \in NotifyOps
        /\ verification[w].success
        /\ transactions' # transactions

\* C22: every step of every operation, other than the step in which a
\* notify records its verified transaction, leaves the balance and the token
\* balance of every wallet as they were.
C22_OnlyVerifiedNotifyWritesBalance ==
    [][~VerifiedNotifyRecorded =>
          /\ Balances(users') = Balances(users)
          /\ TokenBalances(users') = TokenBalances(users)]_vars

\* C22 witness: a wallet holding a token balance has asked for a nonce.
C22_Witness ==
    /\ pc[EventLoop] = "done"
    /\ op[EventLoop] = "get_nonce"
    /\ TokenBalanceOf(users, "0xaa01") > 0
    /\ \E u \in BagToSet(users) : u.wallet_address = "0xaa01" /\ u.nonce > 1

\* The caller asks for an API key.
IssueCall(caller) ==
    /\ pc[EventLoop] = "idle"
    /\ op'[EventLoop] = "create_api_key"
    /\ \E k \in KeyIds, s \in Secrets : create_api_key(EventLoop, caller, k, s)

\* C24: an API key is issued only to a caller whose token balance is
\* strictly positive; a caller with a balance of zero or less is answered 402
\* and no key is created.
C24_IssuanceNeedsBalance ==
    [][\A caller \in BagToSet(users) :
          IssueCall(caller) =>
              /\ (resp'[EventLoop].status = "200" \/ api_keys' # api_keys)
                     => caller.token_balance > 0
              /\ caller.token_balance <= 0
                     => /\ resp'[EventLoop].status = "402"
                        /\ api_keys' = api_keys]_vars

C24_Witness ==
    /\ pc[EventLoop] = "done"
    /\ op[EventLoop] = "create_api_key"
    /\ resp[EventLoop].status = "402"
    /\ \A u \in BagToSet(users) : u.token_balance <= 0

\* The operations on issued keys that answer with key records.
KeyReadOps == {"list_api_keys", "get_api_key", "get_api_key_usage"}

\* The operations that follow the issuance of a key.
KeyLaterOps == KeyReadOps \cup {"delete_api_key", "verify_api_key"}

\* C25: no row of api_keys holds a plaintext secret in any column, and no
\* response of list, get, usage, delete or authenticate carries one.
C25_SecretOnlyAtIssuance ==
    /\ \A k \in BagToSet(api_keys) :
           /\ k.secret_key_hash \notin Secrets
           /\ k.key_id \notin Secrets
           /\ k.user \notin Secrets
    /\ \A w \in Workers :
           (pc[w] = "done" /\ op[w] \in KeyLaterOps) =>
               /\ resp[w].message \notin Secrets
               /\ (op[w] \in KeyReadOps /\ resp[w].status = "200") =>
                      \A item \in resp[w].body :
                          /\ item.secret_key \notin Secrets
                          /\ item.key_id \notin Secrets

\* C25 witness: a key has been issued, its secret shown in the issuance
\* response, and a later listing has returned the key.
C25_Witness ==
    /\ pc[EventLoop] = "done"
    /\ op[EventLoop] = "list_api_keys"
    /\ \E item \in resp[EventLoop].body : item.key_id = "k1"
    /\ \E k \in BagToSet(api_keys), s \in Secrets :
           k.key_id = "k1" /\ k.secret_key_hash = pwd_context_hash(s)

\* C26: an authentication that passes the checks of verify_api_key is of a
\* key that is active and whose expiry time has not passed.
C26_InactiveOrExpiredRejected ==
    \A w \in Workers :
        pc[w] = "count" =>
            /\ loaded[w].is_active
            /\ loaded[w].expires_at > now

\* The call count of a key in a state of table api_keys.
CallCount(table, key_id) ==
    (CHOOSE k \in BagToSet(table) : k.key_id = key_id).call_count

\* C27: each authentication that succeeds adds exactly one to the call count
\* of its key.
C27_EachSuccessCounts ==
    [][\A w \in Workers :
          (/\ pc[w] = "count"
           /\ pc'[w] = "done"
           /\ resp'[w].status = "200")
          => CallCount(api_keys', loaded[w].key_id)
                = CallCount(api_keys, loaded[w].key_id) + 1]_vars

C29_AllOrNothing ==
    (probe.kind = "price" /\ outcome.status = "200")
        => \A f \in DOMAIN probe.futures : ~probe.futures[f].none

\* C30: converting an amount in wei to HSK and back gives the amount.
C30_RoundTripExact ==
    (probe.kind = "wei" /\ outcome.fn = "hsk_to_wei")
        => outcome.wei = probe.wei_amount

\* Worker w runs sign_deposit_transaction for the caller with the key.
SignCall(w, caller, wallet_address, private_key) ==
    /\ pc[w] = "idle"
    /\ op'[w] = "deposit_sign"
    /\ \E sent \in BOOLEAN, h \in TxHashes :
           sign_deposit_transaction(w, caller, wallet_address, private_key,
                                    sent, h)

\* What a response shows to its reader.
Shown(r) ==
    {r.status, r.message} \cup (IF "body" \in DOMAIN r THEN r.body ELSE {})

\* C31: sign-and-submit of a deposit writes nothing to the database, shows
\* the private key in no response, and is answered 403 without a call of
\* sign_transaction when the wallet is not the caller's.
C31_PrivateKeyTransient ==
    [][\A w \in Workers :
          (pc[w] = "idle" /\ op'[w] = "deposit_sign") =>
              \A caller \in BagToSet(users), a \in Wallets,
                 k \in PrivateKeys :
                  SignCall(w, caller, a, k) =>
                      /\ UNCHANGED <<users, transactions, account>>
                      /\ k \notin Shown(resp'[w])
                      /\ Lower(caller.wallet_address) # Lower(a) =>
                             /\ resp'[w] = Forbidden
                             /\ calls'[w] = calls[w]]_vars

\* C31 witness: a deposit has been signed and sent with the caller's key,
\* with no ledger entry written.
C31_Witness ==
    /\ pc[EventLoop] = "done"
    /\ op[EventLoop] = "deposit_sign"
    /\ resp[EventLoop].status = "200"
    /\ calls[EventLoop] = 1
    /\ transactions = EmptyBag

\* The issuance that has just answered on the event loop returned the key
\* key_id with the plaintext secret_key.
Issued(key_id, secret_key) ==
    /\ pc[EventLoop] = "done"
    /\ op[EventLoop] = "create_api_key"
    /\ resp[EventLoop].status = "200"
    /\ \E b \in resp[EventLoop].body :
           b.key_id = key_id /\ b.secret_key = secret_key

\* C32: authenticating with the key_id and the secret that issuance has
\* returned passes the checks of verify_api_key.
C32_IssuedKeyAuthenticates ==
    [][\A w \in Workers, k \in KeyIds, s \in Secrets :
          (Issued(k, s) /\ verify_api_key(w, k, s)) => pc'[w] = "count"]_vars

\* The ledger holds a verified deposit of the user, of a positive amount.
HasDeposit(user) ==
    \E t \in RowsOf(transactions) :
        /\ t.user_wallet = user.wallet_address
        /\ t.amount > 0
        /\ t.tx_type = "deposit"
        /\ t.status = "confirmed"

\* C33: a user whose deposit has been verified and recorded has a positive
\* balance in the eyes of key issuance, and the issuance request succeeds.
C33_DepositThenIssue ==
    [][\A caller \in BagToSet(users) :
          (IssueCall(caller) /\ HasDeposit(caller)) =>
              /\ caller.token_balance > 0
              /\ resp'[EventLoop].status = "200"]_vars

\* C34: no withdrawal or usage-deduction request fails on account of a
\* request that is already pending: none is answered with the error of the
\* database, and one that is not refused for its caller, wallet or balance
\* is answered with its own request id.
C34_ValidRequestsAllRecorded ==
    \A w \in Workers :
        (pc[w] = "done" /\ op[w] \in RequestOps) =>
            /\ resp[w] # Response("500", IntegrityError)
            /\ resp[w].status \notin {"400", "403", "404"} =>
                   /\ resp[w].status = "200"
                   /\ resp[w].request_id > 0

\* C35: once a notify of a verified deposit has answered, the depositor has
\* exactly one user row and the ledger holds the deposit's hash.
C35_DepositorCreated ==
    \A w \in Workers :
        (/\ pc[w] = "done"
         /\ op[w] = "deposit_notify"
         /\ verification[w].success)
        => /\ \E u \in QueryUser(verification[w].user) :
                  CopiesIn(u, users) = 1
           /\ \E t \in RowsOf(transactions) : t.tx_hash = tx_data[w]

\* C36: no two user rows hold the same wallet address, letter case set
\* aside.
C36_OneUserPerWallet ==
    \A u1, u2 \in BagToSet(users) :
        Lower(u1.wallet_address) = Lower(u2.wallet_address)
            => (u1 = u2 /\ CopiesIn(u1, users) = 1)

KeyOps == {"get_api_key", "get_api_key_usage", "delete_api_key"}

\* The caller gets, gets the usage of, or deletes the key key_id.
KeyCall(caller, key_id) ==
    /\ pc[EventLoop] = "idle"
    /\ op'[EventLoop] \in KeyOps
    /\ \/ get_api_key(EventLoop, caller, key_id)
       \/ get_api_key_usage(EventLoop, caller, key_id)
       \/ delete_api_key(EventLoop, caller, key_id)

\* The caller lists the keys.
ListCall(caller) ==
    /\ pc[EventLoop] = "idle"
    /\ op'[EventLoop] = "list_api_keys"
    /\ list_api_keys(EventLoop, caller)

\* C37: get, get-usage and delete of a key by a user who does not own it are
\* answered 404 and leave the keys as they are, and list shows a caller only
\* keys of their own.
C37_KeysIsolatedPerOwner ==
    [][\A caller \in BagToSet(users) :
          /\ \A k \in KeyIds :
                 (/\ KeyCall(caller, k)
                  /\ \E row \in QueryKey(k) :
                         row.user # caller.wallet_address)
                 => /\ resp'[EventLoop] = Response("404", "API key not found")
                    /\ api_keys' = api_keys
          /\ ListCall(caller) =>
                 \A b \in resp'[EventLoop].body :
                     \E row \in QueryKey(b.key_id) :
                         row.user = caller.wallet_address]_vars

\* C37 witness: every key_id is taken, so the delete that has just been
\* answered 404 was asked for by a user who does not own the key.
C37_Witness ==
    /\ pc[EventLoop] = "done"
    /\ op[EventLoop] = "delete_api_key"
    /\ resp[EventLoop] = Response("404", "API key not found")
    /\ \A k \in KeyIds : QueryKey(k) # {}

\* C38: a fetcher makes at most max_retries + 1 attempts, returns the value
\* of the first attempt that read one, and returns None only when
\* max_retries + 1 attempts have been made and none read a value.
C38_FetcherRetries ==
    probe.kind = "fetch" =>
        /\ probe.attempt <= probe.max_retries + 1
        /\ outcome.returned =>
               IF outcome.value.none
               THEN probe.attempt = probe.max_retries + 1
               ELSE probe.last = Data(outcome.value)

====
